---- MODULE Spec2Model ----
(***************************************************************************)
(* Model of scripts/gamelib.js: the GameHandler singleton (frame clock,    *)
(* pause toggle, scheduling of the frame callback), Game.Main.frame (scene *)
(* state machine, interval gate, render paths, frame multiplier), the      *)
(* document key handlers, Game.SpriteActor, Game.EffectActor,              *)
(* Game.Preloader and Game.Util.renderImage.                               *)
(*                                                                         *)
(* Scene objects are named by strings; "null" stands for JavaScript null.  *)
(* scenes is the 1-based TLA+ copy of the 0-based JavaScript array, so the *)
(* JavaScript scenes[i] is scenes[i + 1] here.                             *)
(* frameMultipler is kept in thousandths: e / (1000/60) = 60 * e / 1000,   *)
(* so the stored integer is 60 * e and the initial value 1 is 1000.        *)
(* SpriteActor.animFrame and the animation step are in thousandths too.    *)
(* EffectActor.effectValue is kept as the numerator of a fraction over     *)
(* lifespan, so the result is exact where JavaScript rounds a double.      *)
(***************************************************************************)
EXTENDS Integers, Sequences, FiniteSets

\* ------------------------------------------------------------------ bounds
MaxScenes == 2
MaxTime == 3
MaxFrames == 4
MaxPending == 2
MaxCounter == 1
MaxField == 3
MaxSize == 4
MaxOff == 5
MaxAnim == 2
MaxSpeed == 1
MaxLifespan == 2
MaxValue == 2
MaxImages == 6

\* ------------------------------------------------------- program constants
FPS == 60
MsPerSecond == 1000
MaxFpsPeriod == 16
frameSize == 64

SceneNames == <<"A", "B", "C", "D">>
endScene == "END"
NullScene == "null"

VARIABLES
    game,            \* GameHandler.game is set (start(game) has run)
    paused,          \* GameHandler.paused
    frameCount,      \* GameHandler.frameCount
    frameMultipler,  \* GameHandler.frameMultipler, in thousandths
    frameStart,      \* GameHandler.frameStart
    maxfps,          \* GameHandler.maxfps
    scenes,          \* Game.Main.scenes
    currentScene,    \* Game.Main.currentScene
    sceneIndex,      \* Game.Main.sceneIndex
    interval,        \* Scene.interval of every scene object
    now,             \* the clock read by Date.now()
    pending,         \* callbacks handed to requestAnimFrame and not yet fired
    pausedAt,        \* clock value at the pause() that set paused, 0 while running
    resumedAt,       \* clock value at the last pause() that resumed, -1 if none
    pausedFor,       \* real time spent paused before the last resume
    last,            \* what the last run of Game.Main.frame did
    canvas,          \* GameHandler.canvas
    width,           \* GameHandler.width
    height,          \* GameHandler.height
    blit,            \* the last call of Game.Util.renderImage and its drawImage calls
    sprite,          \* a Game.SpriteActor, and what its last renderSprite did
    effect,          \* a Game.EffectActor
    probe,           \* the last call of effectValue and its result
    keyed,           \* the last key event and what the document handler did with it
    loader           \* a Game.Preloader

\* the frame loop's variables, and the rest
core == <<game, paused, frameCount, frameMultipler, frameStart, maxfps, scenes,
          currentScene, sceneIndex, interval, now, pending, pausedAt, resumedAt,
          pausedFor, last>>
rest == <<canvas, width, height, blit, sprite, effect, probe, keyed, loader>>

vars == <<core, rest>>

\* --------------------------------------------------------------- intervals
\* Scene.interval === null
NullInterval ==
    [isNull |-> TRUE, isUndefined |-> FALSE, framecounter |-> 0, complete |-> FALSE]

\* Scene.interval of new Game.Scene(playable): this.interval = interval stores
\* undefined over the prototype's null
UndefinedInterval ==
    [isNull |-> FALSE, isUndefined |-> TRUE, framecounter |-> 0, complete |-> FALSE]

\* new Game.Interval(label, intervalRenderer)
NewInterval ==
    [isNull |-> FALSE, isUndefined |-> FALSE, framecounter |-> 0, complete |-> FALSE]

\* Game.Interval.prototype.reset
reset(iv) == [iv EXCEPT !.framecounter = 0, !.complete = FALSE]

\* mutant: onInitScene forgets the reset
onInitScene_NoReset(ivs, s) == ivs

\* Game.Scene.prototype.onInitScene, on the intervals ivs, for scene s
onInitScene(ivs, s) ==
    IF ~ivs[s].isNull THEN [ivs EXCEPT ![s] = reset(ivs[s])] ELSE ivs

\* the reset() calls onInitScene makes for scene s
ResetCalls(ivs, s) == IF ~ivs[s].isNull THEN <<s>> ELSE <<>>

\* (currentScene.interval === null || currentScene.interval.complete)
IntervalDone(ivs, s) == ivs[s].isNull \/ ivs[s].complete

\* The interval renderer is supplied by the game; r is what it does to its
\* interval: nothing, count a frame, or flag the interval complete.
RendererMoves == {"none", "count", "complete"}
intervalRenderer(iv, r) ==
    IF r = "count" /\ iv.framecounter < MaxCounter
        THEN [iv EXCEPT !.framecounter = iv.framecounter + 1]
    ELSE IF r = "complete" THEN [iv EXCEPT !.complete = TRUE]
    ELSE iv

\* ------------------------------------------------- scene state machine
\* if (currentScene === null) ... else if (this.isGameOver()) ...
\* g is what isGameOver() returns; it is called only past the null test
IsInit == currentScene = NullScene
IsOver(g) == currentScene # NullScene /\ g

\* mutant: the game over branch leaves sceneIndex alone
BaseIndex_KeepOnOver(g) == IF IsInit THEN 0 ELSE sceneIndex

\* this.sceneIndex after the first two branches
BaseIndex(g) == IF IsInit THEN 0 ELSE IF IsOver(g) THEN -1 ELSE sceneIndex

\* the local currentScene after the first two branches
BaseScene(g) ==
    IF IsInit THEN scenes[1] ELSE IF IsOver(g) THEN endScene ELSE currentScene

\* the onInitScene calls of the first two branches, and what they do
BaseInits(g) == IF IsInit \/ IsOver(g) THEN <<BaseScene(g)>> ELSE <<>>
BaseIntervals(g) ==
    IF IsInit \/ IsOver(g) THEN onInitScene(interval, BaseScene(g)) ELSE interval
BaseResets(g) ==
    IF IsInit \/ IsOver(g) THEN ResetCalls(interval, BaseScene(g)) ELSE <<>>

\* mutant: the advance rule ignores the interval
Advances_NoGate(g, c) == c

\* mutant: the advance rule as a third else-if branch
Advances_ElseIf(g, c) ==
    ~IsInit /\ ~IsOver(g) /\ IntervalDone(BaseIntervals(g), BaseScene(g)) /\ c

\* the advance rule's condition, a plain if after the first two branches;
\* c is what isComplete() returns, asked only past the interval test
Advances(g, c) == IntervalDone(BaseIntervals(g), BaseScene(g)) /\ c

\* mutant: the index is not set back to 0 past the end
NextIndex_NoReset(i) == i + 1

\* mutant: the index is not incremented
NextIndex_NoInc(i) == IF i < Len(scenes) THEN i ELSE 0

\* this.sceneIndex++, and this.sceneIndex = 0 past the end
NextIndex(i) == IF i + 1 < Len(scenes) THEN i + 1 ELSE 0

\* mutant: past the end the last scene is kept instead of scenes[0]
NextScene_NoWrap(i) == IF i + 1 < Len(scenes) THEN scenes[i + 2] ELSE scenes[Len(scenes)]

\* this.scenes[this.sceneIndex] after the increment, this.scenes[0] past the end
NextScene(i) == IF i + 1 < Len(scenes) THEN scenes[i + 2] ELSE scenes[1]

ResolvedIndex(g, c) == IF Advances(g, c) THEN NextIndex(BaseIndex(g)) ELSE BaseIndex(g)
ResolvedScene(g, c) == IF Advances(g, c) THEN NextScene(BaseIndex(g)) ELSE BaseScene(g)
ResolvedInits(g, c) ==
    IF Advances(g, c) THEN BaseInits(g) \o <<ResolvedScene(g, c)>> ELSE BaseInits(g)
ResolvedIntervals(g, c) ==
    IF Advances(g, c) THEN onInitScene(BaseIntervals(g), ResolvedScene(g, c))
    ELSE BaseIntervals(g)
ResolvedResets(g, c) ==
    IF Advances(g, c)
        THEN BaseResets(g) \o ResetCalls(BaseIntervals(g), ResolvedScene(g, c))
    ELSE BaseResets(g)

\* An undefined interval passes the !== null test of onInitScene and fails
\* the === null test of the advance rule: interval.reset() and
\* interval.complete then throw a TypeError and the frame is abandoned.
\* The frame throws at the onInitScene of game init or game over, at the advance
\* rule's test of a scene kept from the last frame, or at the onInitScene of the
\* scene the advance rule moved to.
ThrowsAtBase(g) == interval[BaseScene(g)].isUndefined
ThrowsAtNext(g, c) ==
    ~ThrowsAtBase(g) /\ Advances(g, c) /\ interval[NextScene(BaseIndex(g))].isUndefined
Throws(g, c) == ThrowsAtBase(g) \/ ThrowsAtNext(g, c)

\* this.sceneIndex and the intervals as the abandoned frame leaves them
ThrownIndex(g, c) == IF ThrowsAtBase(g) THEN BaseIndex(g) ELSE NextIndex(BaseIndex(g))
ThrownIntervals(g, c) == IF ThrowsAtBase(g) THEN interval ELSE BaseIntervals(g)

\* ------------------------------------------------------------ render pass
SteadyCalls == <<"onBeforeRenderScene", "onRenderGame", "onRenderScene">>
IntervalCalls == <<"onRenderGame", "intervalRenderer">>

\* mutant: the steady path renders the game before onBeforeRenderScene
RenderCalls_GameFirst(ivs, s) ==
    IF IntervalDone(ivs, s)
        THEN <<"onRenderGame", "onBeforeRenderScene", "onRenderScene">>
    ELSE IntervalCalls

\* the calls of the render pass on scene s, in order
RenderCalls(ivs, s) == IF IntervalDone(ivs, s) THEN SteadyCalls ELSE IntervalCalls

\* the intervals after the render pass: only the interval renderer writes one
RenderedIntervals(ivs, s, r) ==
    IF IntervalDone(ivs, s) THEN ivs
    ELSE [ivs EXCEPT ![s] = intervalRenderer(ivs[s], r)]

\* ------------------------------------------------------------ frame timing
\* mutant: a frame interval of 0 is kept
FrameInterval_NoClamp(start, prev) == start - prev

\* var frameInterval = frameStart - GameHandler.frameStart; 0 becomes 1
FrameInterval(start, prev) == IF start - prev = 0 THEN 1 ELSE start - prev

\* frameInterval / GameHandler.FPSMS, in thousandths
Multiplier(e) == e * FPS

\* ~~(1000 / frameInterval): the quotient truncated towards zero
MaxFps(e) == IF e > 0 THEN MsPerSecond \div e ELSE -(MsPerSecond \div (-e))

\* mutant: the next frame is requested whether paused or not
Scheduled_Always(p) == 1

\* if (!GameHandler.paused) requestAnimFrame(GameHandler.start, frameOffset)
Scheduled(p) == IF ~p THEN 1 ELSE 0

\* the record of a frame, before any frame has run
NoFrame ==
    [via |-> "none", prevScene |-> NullScene, prevIndex |-> -1,
     prevComplete |-> FALSE, over |-> FALSE, base |-> NullScene, baseIndex |-> -1,
     baseInterval |-> NullInterval, c |-> FALSE, asked |-> FALSE,
     advanced |-> FALSE, inits |-> <<>>, resets |-> <<>>, resolved |-> NullScene,
     renderInterval |-> NullInterval, calls |-> <<>>, start |-> 0,
     prevStart |-> 0, e |-> 0, paused |-> FALSE, pausedFrames |-> 0,
     scheduled |-> 0, threw |-> FALSE]

\* what a frame did: the scene it started from, what each rule resolved, the
\* hooks it called in order, and its timing; pausedFrames counts the frames run
\* since pause() set paused, this one included (0 for a frame run unpaused)
FrameRecord(via, prev, p, g, c) ==
    [via |-> via, prevScene |-> currentScene, prevIndex |-> sceneIndex,
     prevComplete |-> IF IsInit THEN FALSE ELSE interval[currentScene].complete,
     over |-> IsOver(g), base |-> BaseScene(g), baseIndex |-> BaseIndex(g),
     baseInterval |-> BaseIntervals(g)[BaseScene(g)], c |-> c,
     asked |-> BaseIntervals(g)[BaseScene(g)].isNull
                  \/ BaseIntervals(g)[BaseScene(g)].complete,
     advanced |-> Advances(g, c),
     inits |-> ResolvedInits(g, c), resets |-> ResolvedResets(g, c),
     resolved |-> ResolvedScene(g, c),
     renderInterval |-> ResolvedIntervals(g, c)[ResolvedScene(g, c)],
     calls |-> RenderCalls(ResolvedIntervals(g, c), ResolvedScene(g, c)),
     start |-> now, prevStart |-> prev, e |-> FrameInterval(now, prev),
     paused |-> p, pausedFrames |-> IF p THEN last.pausedFrames + 1 ELSE 0,
     scheduled |-> Scheduled(p), threw |-> FALSE]

\* the record of a frame abandoned by a TypeError: no render pass, no request
ThrownRecord(via, prev, p, g, c) ==
    [FrameRecord(via, prev, p, g, c) EXCEPT
        !.threw = TRUE, !.calls = <<>>, !.scheduled = 0,
        !.advanced = ThrowsAtNext(g, c),
        !.inits = IF ThrowsAtNext(g, c)
                      THEN BaseInits(g) \o <<NextScene(BaseIndex(g))>>
                  ELSE BaseInits(g),
        !.resets = IF ThrowsAtNext(g, c) THEN BaseResets(g) ELSE <<>>,
        !.resolved = IF ThrowsAtNext(g, c) THEN NextScene(BaseIndex(g))
                     ELSE BaseScene(g)]

\* Game.Main.prototype.frame, called with GameHandler.frameStart = prev,
\* GameHandler.paused = p and the fired callback already taken from pend;
\* g, c, r are the results of isGameOver(), isComplete() and the interval renderer.
\* A frame that throws leaves this.sceneIndex and the intervals as written so
\* far, GameHandler.frameStart as its caller set it, and everything else alone.
frame(via, prev, p, pend, g, c, r) ==
    /\ frameCount < MaxFrames
    /\ pend + Scheduled(p) <= MaxPending
    /\ IF Throws(g, c)
           THEN /\ sceneIndex' = ThrownIndex(g, c)
                /\ interval' = ThrownIntervals(g, c)
                /\ frameStart' = prev
                /\ pending' = pend
                /\ last' = ThrownRecord(via, prev, p, g, c)
                /\ UNCHANGED <<currentScene, frameCount, maxfps, frameMultipler>>
       ELSE /\ sceneIndex' = ResolvedIndex(g, c)
            /\ currentScene' = ResolvedScene(g, c)
            /\ interval' =
                   RenderedIntervals(ResolvedIntervals(g, c), ResolvedScene(g, c), r)
            /\ frameCount' = frameCount + 1
            /\ maxfps' = IF (frameCount + 1) % MaxFpsPeriod = 0
                             THEN MaxFps(FrameInterval(now, prev))
                         ELSE maxfps
            /\ frameMultipler' = Multiplier(FrameInterval(now, prev))
            /\ frameStart' = now
            /\ pending' = pend + Scheduled(p)
            /\ last' = FrameRecord(via, prev, p, g, c)
    /\ UNCHANGED <<scenes, now>>

\* ------------------------------------------------------------ GameHandler
SceneObjects(n) == {SceneNames[i] : i \in 1..n} \cup {endScene}

\* the canvas elements a page may hold, and the one of the frame loop's runs
Canvases == {[width |-> w, height |-> h] : w \in 1..MaxField, h \in 1..MaxField}
PlayField == [width |-> MaxField, height |-> MaxField - 1]

\* GameHandler.init: width is read from canvas.height, height from canvas.width
init(cv) == [canvas |-> cv, width |-> cv.height, height |-> cv.width]

\* no call of renderImage yet
NoBlit == [called |-> FALSE, width |-> 0, height |-> 0, ny |-> 0, ns |-> 0,
           x |-> 0, y |-> 0, s |-> 0, draws |-> <<>>]

\* no SpriteActor constructed yet
NoSprite == [isNull |-> TRUE, animLength |-> 0, animForward |-> TRUE,
             animSpeed |-> 1, animFrame |-> 0, rendered |-> FALSE,
             before |-> 0, multiplier |-> 0, forward |-> TRUE]

\* no EffectActor constructed yet
NoEffect == [isNull |-> TRUE, lifespan |-> 0, effectStart |-> 0, seen |-> FALSE]

\* no call of effectValue yet
NoProbe == [called |-> FALSE, val |-> 0, lifespan |-> 0, elapsed |-> 0, result |-> 0]

\* no key event yet
NoKey == [type |-> "none", active |-> NullScene, offered |-> NullScene,
          handles |-> FALSE, suppressed |-> FALSE]

\* new Game.Preloader()
NewPreloader == [images |-> 0, started |-> FALSE, requested |-> {}, loaded |-> {},
                 counter |-> 0, calls |-> 0]

\* the state once the script is loaded, window.onload has called
\* GameHandler.init on one of the given canvases, and the game is built, its
\* scenes constructed with an interval argument of one of the given kinds
InitWith(kinds, canvases) ==
    /\ game = FALSE
    /\ paused = FALSE
    /\ frameCount = 0
    /\ frameMultipler = 1000
    /\ frameStart = 0
    /\ maxfps = 0
    /\ \E n \in 1..MaxScenes :
          /\ scenes = SubSeq(SceneNames, 1, n)
          /\ interval \in [SceneObjects(n) -> kinds]
    /\ currentScene = NullScene
    /\ sceneIndex = -1
    /\ now = 0
    /\ pending = 0
    /\ pausedAt = 0
    /\ resumedAt = -1
    /\ pausedFor = 0
    /\ last = NoFrame
    /\ \E cv \in canvases :
          /\ canvas = init(cv).canvas
          /\ width = init(cv).width
          /\ height = init(cv).height
    /\ blit = NoBlit
    /\ sprite = NoSprite
    /\ effect = NoEffect
    /\ probe = NoProbe
    /\ keyed = NoKey
    /\ loader = NewPreloader

\* every scene constructed with null or a Game.Interval as its interval
Init == InitWith({NullInterval, NewInterval}, {PlayField})

\* GameHandler.start(game) with a Game.Main instance
Start ==
    /\ ~game
    /\ game' = TRUE
    /\ \E g \in BOOLEAN, c \in BOOLEAN, r \in RendererMoves :
          frame("start", now, paused, pending, g, c, r)
    /\ UNCHANGED <<paused, pausedAt, resumedAt, pausedFor>>
    /\ UNCHANGED rest

\* a callback handed to requestAnimFrame fires: GameHandler.start(timestamp)
Callback ==
    /\ pending > 0
    /\ \E g \in BOOLEAN, c \in BOOLEAN, r \in RendererMoves :
          frame("callback", frameStart, paused, pending - 1, g, c, r)
    /\ UNCHANGED <<game, paused, pausedAt, resumedAt, pausedFor>>
    /\ UNCHANGED rest

\* mutant: resume leaves GameHandler.frameStart as the last frame set it
ResumeStart_Stale == frameStart

\* the timestamp GameHandler.pause primes the clock with on resume
ResumeStart == now

\* GameHandler.pause() while running
Pause ==
    /\ ~paused
    /\ paused' = TRUE
    /\ pausedAt' = now
    /\ UNCHANGED <<game, frameCount, frameMultipler, frameStart, maxfps, scenes,
                   currentScene, sceneIndex, interval, now, pending, resumedAt,
                   pausedFor, last>>
    /\ UNCHANGED rest

\* GameHandler.pause() while paused, the game started
Resume ==
    /\ paused
    /\ game
    /\ paused' = FALSE
    /\ resumedAt' = now
    /\ pausedFor' = now - pausedAt
    /\ pausedAt' = 0
    /\ \E g \in BOOLEAN, c \in BOOLEAN, r \in RendererMoves :
          frame("resume", ResumeStart, FALSE, pending, g, c, r)
    /\ UNCHANGED game
    /\ UNCHANGED rest

\* GameHandler.pause() while paused, before start(game): GameHandler.game is
\* null, so the call throws after the two assignments
ResumeBeforeStart ==
    /\ paused
    /\ ~game
    /\ paused' = FALSE
    /\ frameStart' = now
    /\ UNCHANGED <<game, frameCount, frameMultipler, maxfps, scenes, currentScene,
                   sceneIndex, interval, now, pending, pausedAt, resumedAt,
                   pausedFor, last>>
    /\ UNCHANGED rest

\* real time passes
Tick ==
    /\ now < MaxTime
    /\ now' = now + 1
    /\ UNCHANGED <<game, paused, frameCount, frameMultipler, frameStart, maxfps,
                   scenes, currentScene, sceneIndex, interval, pending, pausedAt,
                   resumedAt, pausedFor, last>>
    /\ UNCHANGED rest

\* The scene state machine reads neither the clock nor the pause flag, and the
\* frame timing reads nothing of the scenes. Spec runs every game layout with
\* the loop running freely; SpecClock runs the clock, the pause toggle and the
\* scheduling on the smallest layout (one scene, no intervals).
SceneNext == Start \/ Callback

Spec == Init /\ [][SceneNext]_vars

InitClock ==
    /\ Init
    /\ Len(scenes) = 1
    /\ \A s \in DOMAIN interval : interval[s].isNull

Next == Start \/ Callback \/ Pause \/ Resume \/ ResumeBeforeStart \/ Tick

SpecClock == InitClock /\ [][Next]_vars

\* scenes constructed with null, with a Game.Interval, or with no interval
\* argument at all
InitOptional == InitWith({NullInterval, NewInterval, UndefinedInterval}, {PlayField})

SpecOptional == InitOptional /\ [][SceneNext]_vars

\* ------------------------------------------------------ toroidal renderer
\* mutant: the copy for x < 0 and y < 0 together is left out
renderImage_NoCorner(W, H, x, y, s) ==
    <<<<x, y>>>>
    \o (IF x < 0 THEN <<<<W + x, y>>>> ELSE <<>>)
    \o (IF y < 0 THEN <<<<x, H + y>>>> ELSE <<>>)
    \o (IF x + s > W THEN <<<<x - W, y>>>> ELSE <<>>)
    \o (IF y + s > H THEN <<<<x, y - H>>>> ELSE <<>>)
    \o (IF x + s > W /\ y + s > H THEN <<<<x - W, y - H>>>> ELSE <<>>)

\* mutant: a sprite that only touches the right or bottom edge is wrapped too
renderImage_TouchWraps(W, H, x, y, s) ==
    <<<<x, y>>>>
    \o (IF x < 0 THEN <<<<W + x, y>>>> ELSE <<>>)
    \o (IF y < 0 THEN <<<<x, H + y>>>> ELSE <<>>)
    \o (IF x < 0 /\ y < 0 THEN <<<<W + x, H + y>>>> ELSE <<>>)
    \o (IF x + s >= W THEN <<<<x - W, y>>>> ELSE <<>>)
    \o (IF y + s >= H THEN <<<<x, y - H>>>> ELSE <<>>)
    \o (IF x + s >= W /\ y + s >= H THEN <<<<x - W, y - H>>>> ELSE <<>>)

\* Game.Util.renderImage with GameHandler.width = W and GameHandler.height = H:
\* the destination corners of its drawImage calls, in order. Every call draws
\* the same source tile (nx, ny, ns, ns) at size s.
renderImage(W, H, x, y, s) ==
    <<<<x, y>>>>
    \o (IF x < 0 THEN <<<<W + x, y>>>> ELSE <<>>)
    \o (IF y < 0 THEN <<<<x, H + y>>>> ELSE <<>>)
    \o (IF x < 0 /\ y < 0 THEN <<<<W + x, H + y>>>> ELSE <<>>)
    \o (IF x + s > W THEN <<<<x - W, y>>>> ELSE <<>>)
    \o (IF y + s > H THEN <<<<x, y - H>>>> ELSE <<>>)
    \o (IF x + s > W /\ y + s > H THEN <<<<x - W, y - H>>>> ELSE <<>>)

\* the record of a renderImage call: the field it read, its arguments, its draws
Blit(ny, ns, x, y, s) ==
    [called |-> TRUE, width |-> width, height |-> height, ny |-> ny, ns |-> ns,
     x |-> x, y |-> y, s |-> s, draws |-> renderImage(width, height, x, y, s)]

Positions == (0 - MaxOff)..(MaxField + 1)

\* a call of Game.Util.renderImage by the game
RenderImage ==
    /\ \E x \in Positions, y \in Positions, s \in 1..MaxSize :
          blit' = Blit(0, frameSize, x, y, s)
    /\ UNCHANGED <<core, canvas, width, height, sprite, effect, probe, keyed, loader>>

\* renderImage on every canvas, the frame loop not running
InitRender ==
    /\ InitWith({NullInterval}, Canvases)
    /\ Len(scenes) = 1

SpecRender == InitRender /\ [][RenderImage]_vars

\* ------------------------------------------------------------ SpriteActor
\* a sprite class built on Game.SpriteActor: the constructor, then the
\* subclass's own values for animLength, animSpeed and animForward
NewSprite ==
    /\ sprite.isNull
    /\ \E len \in 0..MaxAnim, speed \in 0..MaxSpeed, fwd \in BOOLEAN :
          sprite' = [NoSprite EXCEPT !.isNull = FALSE, !.animLength = len,
                                     !.animSpeed = speed, !.animForward = fwd]
    /\ UNCHANGED <<core, canvas, width, height, blit, effect, probe, keyed, loader>>

\* this.animFrame << 6: ToInt32 drops the fraction, the shift multiplies by 64
\* (animFrame in thousandths; a frame index is far below 2^25, so the 32-bit
\* shift loses no bit)
ToInt32(a) == IF a >= 0 THEN a \div 1000 ELSE 0 - ((0 - a) \div 1000)
ShiftLeft6(a) == ToInt32(a) * 64

\* mutant: going forward, only a result past animLength wraps
NextAnimFrame_WrapPast(sp) ==
    IF sp.animForward
        THEN IF sp.animFrame + sp.animSpeed * frameMultipler > sp.animLength * 1000
                 THEN 0
             ELSE sp.animFrame + sp.animSpeed * frameMultipler
    ELSE IF sp.animFrame - sp.animSpeed * frameMultipler < 0
             THEN (sp.animLength - 1) * 1000
         ELSE sp.animFrame - sp.animSpeed * frameMultipler

\* the update of the animation frame index in renderSprite, in thousandths
NextAnimFrame(sp) ==
    IF sp.animForward
        THEN IF sp.animFrame + sp.animSpeed * frameMultipler >= sp.animLength * 1000
                 THEN 0
             ELSE sp.animFrame + sp.animSpeed * frameMultipler
    ELSE IF sp.animFrame - sp.animSpeed * frameMultipler < 0
             THEN (sp.animLength - 1) * 1000
         ELSE sp.animFrame - sp.animSpeed * frameMultipler

\* Game.SpriteActor.prototype.renderSprite(ctx, x, y, s): draws the current
\* frame of the strip through renderImage, then steps the animation
renderSprite(x, y, s) ==
    /\ ~sprite.isNull
    /\ blit' = Blit(ShiftLeft6(sprite.animFrame), frameSize, x, y, s)
    /\ sprite' = [sprite EXCEPT !.animFrame = NextAnimFrame(sprite),
                                !.rendered = TRUE,
                                !.before = sprite.animFrame,
                                !.multiplier = frameMultipler,
                                !.forward = sprite.animForward]
    /\ UNCHANGED <<core, canvas, width, height, effect, probe, keyed, loader>>

\* the game renders the sprite at the left edge or inside the field
RenderSprite == \E x \in {-1, 0} : renderSprite(x, 0, 1)

\* the game turns the animation round
Flip ==
    /\ ~sprite.isNull
    /\ sprite' = [sprite EXCEPT !.animForward = ~sprite.animForward]
    /\ UNCHANGED <<core, canvas, width, height, blit, effect, probe, keyed, loader>>

\* The sprite reads GameHandler.frameMultipler only: 1 until the first frame,
\* 60/1000 after a frame that started in the millisecond of the one before,
\* as the frame of start(game) does.
SpriteNext == Start \/ NewSprite \/ RenderSprite \/ Flip

SpecSprite == InitClock /\ [][SpriteNext]_vars

\* ------------------------------------------------------------ EffectActor
\* new Game.EffectActor(p, v, lifespan): effectStart = GameHandler.frameStart
NewEffect ==
    /\ effect.isNull
    /\ \E ls \in 1..MaxLifespan :
          effect' = [isNull |-> FALSE, lifespan |-> ls, effectStart |-> frameStart,
                     seen |-> FALSE]
    /\ UNCHANGED <<core, canvas, width, height, blit, sprite, probe, keyed, loader>>

\* mutant: the effect expires when its lifespan is reached
expired_AtLifespan(ef) == frameStart - ef.effectStart >= ef.lifespan

\* Game.EffectActor.prototype.expired
expired(ef) == frameStart - ef.effectStart > ef.lifespan

\* the owner of the effect asks expired(); seen: it has answered true
Expired ==
    /\ ~effect.isNull
    /\ effect' = [effect EXCEPT !.seen = effect.seen \/ expired(effect)]
    /\ UNCHANGED <<core, canvas, width, height, blit, sprite, probe, keyed, loader>>

\* mutant: the result is not cropped at 0
EffectValueAt_NoFloor(val, ls, elapsed) ==
    IF val * ls - val * elapsed > val * ls THEN val * ls
    ELSE val * ls - val * elapsed

\* val - ((val / lifespan) * elapsed), cropped to [0, val]: the numerator of
\* the result over lifespan
EffectValueAt(val, ls, elapsed) ==
    IF val * ls - val * elapsed < 0 THEN 0
    ELSE IF val * ls - val * elapsed > val * ls THEN val * ls
    ELSE val * ls - val * elapsed

\* Game.EffectActor.prototype.effectValue(val)
effectValue(val) ==
    EffectValueAt(val, effect.lifespan, frameStart - effect.effectStart)

\* a call of effectValue by the effect's renderer
EffectValue ==
    /\ ~effect.isNull
    /\ \E val \in 0..MaxValue :
          probe' = [called |-> TRUE, val |-> val, lifespan |-> effect.lifespan,
                    elapsed |-> frameStart - effect.effectStart,
                    result |-> effectValue(val)]
    /\ UNCHANGED <<core, canvas, width, height, blit, sprite, effect, keyed, loader>>

\* the effect under the running, pausing clock
EffectNext == Start \/ Callback \/ Pause \/ Resume \/ Tick \/ NewEffect \/ Expired

SpecEffect == InitClock /\ [][EffectNext]_vars

\* the decay of the effect's value under the running clock
DecayNext == Start \/ Callback \/ Tick \/ NewEffect \/ EffectValue

SpecDecay == InitClock /\ [][DecayNext]_vars

\* ------------------------------------------------------------- key events
\* if (me.sceneIndex !== -1): the scene whose handler the event is offered to
KeyTarget == IF sceneIndex # -1 THEN scenes[sceneIndex + 1] ELSE NullScene

\* What a document key handler does with an event: active is the scene the
\* frame loop resolved last, offered the scene whose handler is called,
\* handles what the active scene's handler answers for this key (h), and
\* suppressed whether preventDefault and stopPropagation are called.
KeyEvent(type, h) ==
    [type |-> type, active |-> currentScene, offered |-> KeyTarget, handles |-> h,
     suppressed |-> KeyTarget # NullScene /\ h]

\* document.onkeydown
onkeydown ==
    /\ \E h \in BOOLEAN : keyed' = KeyEvent("keydown", h)
    /\ UNCHANGED <<core, canvas, width, height, blit, sprite, effect, probe, loader>>

\* document.onkeyup
onkeyup ==
    /\ \E h \in BOOLEAN : keyed' = KeyEvent("keyup", h)
    /\ UNCHANGED <<core, canvas, width, height, blit, sprite, effect, probe, loader>>

KeysNext == Start \/ Callback \/ onkeydown \/ onkeyup

SpecKeys == Init /\ [][KeysNext]_vars

\* -------------------------------------------------------------- Preloader
\* Game.Preloader.prototype.addImage; the images are numbered in the order of
\* registration, and all are registered before onLoadCallback
addImage ==
    /\ ~loader.started
    /\ loader.images < MaxImages
    /\ loader' = [loader EXCEPT !.images = loader.images + 1]
    /\ UNCHANGED <<core, canvas, width, height, blit, sprite, effect, probe, keyed>>

\* Game.Preloader.prototype.onLoadCallback(fn): the counter is zeroed and the
\* src of every registered image set, which asks the browser to load it
onLoadCallback ==
    /\ ~loader.started
    /\ loader' = [loader EXCEPT !.started = TRUE, !.counter = 0,
                                !.requested = 1..loader.images]
    /\ UNCHANGED <<core, canvas, width, height, blit, sprite, effect, probe, keyed>>

\* the browser has loaded image i: the closure of addImage runs
onload(i) ==
    /\ i \in loader.requested \ loader.loaded
    /\ loader' = [loader EXCEPT
                      !.loaded = loader.loaded \cup {i},
                      !.counter = loader.counter + 1,
                      !.calls = IF loader.counter + 1 = loader.images
                                    THEN loader.calls + 1
                                ELSE loader.calls]
    /\ UNCHANGED <<core, canvas, width, height, blit, sprite, effect, probe, keyed>>

Onload == \E i \in 1..MaxImages : onload(i)

LoaderNext == addImage \/ onLoadCallback \/ Onload

SpecLoader == InitClock /\ [][LoaderNext]_vars

\* ------------------------------------------------------------- properties
Ran == last.via # "none"
ListScenes == {scenes[k] : k \in 1..Len(scenes)}
NoIntervals == \A s \in ListScenes : interval[s].isNull
Count(seq, x) == Cardinality({k \in DOMAIN seq : seq[k] = x})
Max(a, b) == IF a >= b THEN a ELSE b

\* the frame asked scenes[i] of the list for isComplete() and got true, with
\* no interval in the list and no game over
CompleteInList ==
    /\ Ran
    /\ NoIntervals
    /\ ~last.over
    /\ last.baseIndex >= 0
    /\ last.asked
    /\ last.c

\* C1 as stated: in a list of scenes without intervals and with no game over,
\* the frame in which scenes[i] reports isComplete() = true resolves
\* scenes[(i+1) mod n], and calls that scene's onInitScene exactly once.
C1_Original ==
    CompleteInList =>
        /\ last.resolved = scenes[((last.baseIndex + 1) % Len(scenes)) + 1]
        /\ currentScene = last.resolved
        /\ sceneIndex = (last.baseIndex + 1) % Len(scenes)
        /\ Count(last.inits, last.resolved) = 1

\* C1 amended: as C1, but the onInitScene of the resolved scene is called once
\* by the advance rule and, when the frame is the game's first and the list has
\* one scene, once more by the game init branch before it (twice in that frame).
C1_SceneTransition ==
    CompleteInList =>
        /\ last.base = scenes[last.baseIndex + 1]
        /\ last.resolved = scenes[((last.baseIndex + 1) % Len(scenes)) + 1]
        /\ currentScene = last.resolved
        /\ sceneIndex = (last.baseIndex + 1) % Len(scenes)
        /\ last.inits[Len(last.inits)] = last.resolved
        /\ Count(last.inits, last.resolved) =
               IF last.prevScene = NullScene /\ Len(scenes) = 1 THEN 2 ELSE 1

\* the last scene of a list of two or more wrapped to scenes[0]
C1_Witness ==
    /\ CompleteInList
    /\ Len(scenes) >= 2
    /\ last.prevScene = scenes[Len(scenes)]
    /\ last.baseIndex = Len(scenes) - 1
    /\ currentScene = scenes[1]
    /\ last.inits = <<scenes[1]>>

\* C2: a frame whose current scene (the one the advance rule looks at) has an
\* interval that is not complete does not advance: the resolved scene and
\* sceneIndex are those the advance rule found, whatever isComplete() returns.
C2_IntervalGating ==
    (Ran /\ ~last.baseInterval.isNull /\ ~last.baseInterval.complete) =>
        /\ ~last.advanced
        /\ last.resolved = last.base
        /\ currentScene = last.base
        /\ sceneIndex = last.baseIndex
        /\ (~last.over /\ last.prevScene # NullScene =>
                currentScene = last.prevScene /\ sceneIndex = last.prevIndex)

\* the gate held back a scene whose isComplete() is true
C2_Witness ==
    /\ Ran
    /\ ~last.baseInterval.isNull
    /\ ~last.baseInterval.complete
    /\ last.c
    /\ last.prevScene = last.base
    /\ currentScene = last.base

\* C3 as stated: the advance rule runs only in a frame that had a current scene
\* and no game over, so a frame makes at most one transition and at most one
\* onInitScene call.
C3_Original ==
    Ran =>
        /\ Len(last.inits) <= 1
        /\ (last.advanced => last.prevScene # NullScene /\ ~last.over)

\* C3 amended: game init and game over exclude each other, and the advance rule
\* is evaluated in every frame on the scene they leave: a frame makes at most
\* two transitions and two onInitScene calls, one by game init or game over and
\* one by the advance rule; two exactly when game init or game over fired and
\* the scene it entered has no interval and reports isComplete() = true.
C3_TransitionsPerFrame ==
    Ran =>
        /\ Len(last.inits) <= 2
        /\ ~(last.prevScene = NullScene /\ last.over)
        /\ (Len(last.inits) = 2 <=>
                /\ (last.prevScene = NullScene \/ last.over)
                /\ last.baseInterval.isNull
                /\ last.c)
        /\ (last.prevScene # NullScene /\ ~last.over => Len(last.inits) <= 1)
        /\ (last.advanced <=> last.asked /\ last.c)

\* a game-over frame that entered the end scene and left it for scenes[0]
C3_Witness ==
    /\ Ran
    /\ last.over
    /\ last.inits = <<endScene, scenes[1]>>
    /\ currentScene = scenes[1]

\* C4 as stated: a frame that starts with a current scene and finds
\* isGameOver() true ends with currentScene the end scene and sceneIndex -1,
\* the end scene's onInitScene called, whatever its isComplete() returns.
C4_Original ==
    (Ran /\ last.prevScene # NullScene /\ last.over) =>
        /\ currentScene = endScene
        /\ sceneIndex = -1
        /\ Count(last.inits, endScene) = 1

\* C4 amended: such a frame enters the end scene (sceneIndex -1, its
\* onInitScene called first) and ends there, unless the end scene has no
\* interval and its isComplete() returns true: then the advance rule runs in
\* the same frame and the frame ends on scenes[0] with sceneIndex 0.
C4_GameOver ==
    (Ran /\ last.prevScene # NullScene /\ last.over) =>
        /\ last.base = endScene
        /\ last.baseIndex = -1
        /\ last.inits[1] = endScene
        /\ IF last.baseInterval.isNull /\ last.c
               THEN currentScene = scenes[1] /\ sceneIndex = 0
           ELSE currentScene = endScene /\ sceneIndex = -1

\* game over entered from a scene of the list, the end scene reporting
\* isComplete() = true behind its interval
C4_Witness ==
    /\ Ran
    /\ last.over
    /\ last.prevScene \in ListScenes
    /\ last.c
    /\ currentScene = endScene
    /\ sceneIndex = -1

\* C5: in GameOver (sceneIndex -1, currentScene the end scene), with no game
\* over, the end scene's interval absent or complete and its isComplete()
\* true, the frame resolves scenes[0] with sceneIndex 0 and calls
\* scenes[0].onInitScene exactly once.
C5_GameOverLoops ==
    (/\ Ran
     /\ last.prevScene = endScene
     /\ last.prevIndex = -1
     /\ ~last.over
     /\ (last.baseInterval.isNull \/ last.baseInterval.complete)
     /\ last.c) =>
        /\ currentScene = scenes[1]
        /\ sceneIndex = 0
        /\ Count(last.inits, scenes[1]) = 1
        /\ Len(last.inits) = 1

\* the end scene's interval completed, and the next frame looped to scenes[0]
C5_Witness ==
    /\ Ran
    /\ last.prevScene = endScene
    /\ last.prevIndex = -1
    /\ ~last.over
    /\ ~last.baseInterval.isNull
    /\ last.baseInterval.complete
    /\ last.c
    /\ currentScene = scenes[1]

\* C6: sceneIndex is the sentinel -1 or an index of the list, and advancing
\* from the last index gives 0.
C6_IndexInRange ==
    /\ sceneIndex \in {-1} \cup (0..(Len(scenes) - 1))
    /\ (Ran /\ last.advanced /\ last.baseIndex = Len(scenes) - 1 => sceneIndex = 0)

\* the advance rule ran on the last index of a list of two or more
C6_Witness ==
    /\ Ran
    /\ Len(scenes) >= 2
    /\ last.advanced
    /\ last.baseIndex = Len(scenes) - 1
    /\ sceneIndex = 0

\* C7 as stated: reset is invoked on a scene's interval only in a frame where
\* the scene becomes the active one, never on a scene that was current and
\* remains so; a complete interval stays complete while its scene remains
\* current. (The advance rule wrapping a single-scene list onto its only scene
\* is read as that scene becoming active again.)
C7_Original ==
    Ran =>
        /\ \A k \in DOMAIN last.resets :
               last.resets[k] # last.prevScene \/ last.advanced
        /\ (last.prevScene = currentScene /\ last.prevComplete /\ ~last.advanced =>
                interval[currentScene].complete)

\* C7 amended: reset is invoked exactly once for every onInitScene call on a
\* scene that has an interval, and at no other time; no scene is reset twice in
\* a frame, and a scene reset and resolved in the same frame is rendered by its
\* interval. A frame that calls no onInitScene resets nothing and keeps a
\* complete interval complete. A scene that is already current is reset again
\* when the frame re-enters it: the end scene whenever isGameOver() holds, and
\* the only scene of a single-scene list when it completes.
C7_ResetOnInit ==
    Ran =>
        /\ \A s \in DOMAIN interval :
               /\ Count(last.resets, s) = IF interval[s].isNull THEN 0
                                          ELSE Count(last.inits, s)
               /\ Count(last.resets, s) <= 1
               /\ (Count(last.resets, s) = 1 /\ s # currentScene =>
                       interval[s].framecounter = 0 /\ ~interval[s].complete)
               /\ (Count(last.resets, s) = 1 /\ s = currentScene =>
                       /\ last.renderInterval = NewInterval
                       /\ last.calls = <<"onRenderGame", "intervalRenderer">>)
        /\ (last.inits = <<>> =>
                /\ currentScene = last.prevScene
                /\ (last.prevComplete => interval[currentScene].complete))

\* the end scene, current with a complete interval, was reset by a second
\* game over
C7_Witness ==
    /\ Ran
    /\ last.prevScene = endScene
    /\ last.prevComplete
    /\ last.over
    /\ last.resets = <<endScene>>
    /\ currentScene = endScene

\* C8: a frame renders the scene it resolved by one of two paths: interval
\* absent or complete gives onBeforeRenderScene, onRenderGame, onRenderScene in
\* that order; otherwise onRenderGame then the interval's renderer, and neither
\* scene render hook. onRenderGame is called exactly once in every frame.
C8_RenderPaths ==
    Ran =>
        /\ IF last.renderInterval.isNull \/ last.renderInterval.complete
               THEN last.calls = <<"onBeforeRenderScene", "onRenderGame", "onRenderScene">>
           ELSE /\ last.calls = <<"onRenderGame", "intervalRenderer">>
                /\ Count(last.calls, "onBeforeRenderScene") = 0
                /\ Count(last.calls, "onRenderScene") = 0
        /\ Count(last.calls, "onRenderGame") = 1
        /\ last.resolved = currentScene

\* a frame rendered a scene through its interval, and the next through the
\* steady path after the interval completed
C8_Witness ==
    /\ Ran
    /\ ~last.renderInterval.isNull
    /\ last.renderInterval.complete
    /\ last.prevScene = currentScene
    /\ last.calls[1] = "onBeforeRenderScene"

\* C9: after every frame frameMultipler is e / (1000/60), e the frame's start
\* time minus the previous GameHandler.frameStart with 0 replaced by 1, and
\* frameStart is the frame's start time; on a clock that never runs back the
\* multiplier is strictly positive. (frameMultipler in thousandths: 60 * e.)
C9_FrameMultiplier ==
    Ran =>
        /\ frameMultipler * MsPerSecond =
               (IF last.start - last.prevStart = 0 THEN 1
                ELSE last.start - last.prevStart) * 60 * 1000
        /\ (last.start - last.prevStart = 0 => frameMultipler = 60)
        /\ frameStart = last.start
        /\ frameMultipler > 0

\* a frame that started in the millisecond of the previous one
C9_Witness ==
    /\ Ran
    /\ last.via = "callback"
    /\ last.start > 0
    /\ last.start - last.prevStart = 0
    /\ frameMultipler = 60

\* C10: the frame pause() runs on resume measures from the resume itself
\* (e = 1 after the clamp, multiplier 60/1000), and every later frame measures
\* at most the time since the resume: no part of the paused time enters a
\* frameMultipler.
C10_PauseResume ==
    /\ (last.via = "resume" => last.e = 1 /\ frameMultipler = 60)
    /\ (Ran /\ resumedAt >= 0 =>
            /\ last.start >= resumedAt
            /\ last.e <= Max(1, last.start - resumedAt)
            /\ frameMultipler = 60 * last.e)

\* two milliseconds were spent paused, and a frame ran after the resume's own
C10_Witness ==
    /\ last.via = "callback"
    /\ resumedAt >= 0
    /\ pausedFor >= 2
    /\ last.start > resumedAt
    /\ last.e = 1

\* C11: a frame requests the next invocation exactly once when paused is false
\* at its end and not at all when paused is true: a frame run while paused
\* leaves no more callbacks pending than it found, and a frame run while not
\* paused leaves one pending, so a running handler always has a next frame
\* scheduled.
C11_Scheduling ==
    Ran =>
        /\ last.scheduled = (IF last.paused THEN 0 ELSE 1)
        /\ (~paused => pending >= 1)

\* the scheduled frame ran after pause() and requested nothing: the loop stopped
C11_Witness ==
    /\ last.via = "callback"
    /\ last.paused
    /\ last.scheduled = 0
    /\ paused
    /\ pending = 0

\* C12 as stated: at most one frame-advance callback is pending with the
\* scheduling primitive at any time, for every interleaving of start(game),
\* pause() calls and firings of scheduled callbacks.
C12_SingleLoop == pending <= 1

\* the six wrap cases of a renderImage call: condition and destination corner
WrapCases ==
    <<<<blit.x < 0, <<blit.x + blit.width, blit.y>>>>,
      <<blit.y < 0, <<blit.x, blit.y + blit.height>>>>,
      <<blit.x < 0 /\ blit.y < 0, <<blit.x + blit.width, blit.y + blit.height>>>>,
      <<blit.x + blit.s > blit.width, <<blit.x - blit.width, blit.y>>>>,
      <<blit.y + blit.s > blit.height, <<blit.x, blit.y - blit.height>>>>,
      <<blit.x + blit.s > blit.width /\ blit.y + blit.s > blit.height,
        <<blit.x - blit.width, blit.y - blit.height>>>>>>
CasesUpTo(k) == Cardinality({j \in 1..k : WrapCases[j][1]})
Extras == Len(blit.draws) - 1
InsideX == 0 <= blit.x /\ blit.x + blit.s <= blit.width
InsideY == 0 <= blit.y /\ blit.y + blit.s <= blit.height

Straddles ==
    \/ blit.x < 0 /\ blit.x + blit.s > 0
    \/ blit.x < blit.width /\ blit.x + blit.s > blit.width
    \/ blit.y < 0 /\ blit.y + blit.s > 0
    \/ blit.y < blit.height /\ blit.y + blit.s > blit.height

\* C14 as stated: a call makes at most 4 draws beyond the primary, and makes
\* one or more exactly when the bounding box straddles an edge of the field.
C14_Original ==
    blit.called =>
        /\ Extras <= 4
        /\ (Extras > 0 <=> Straddles)

\* C14 amended: a call makes at most 6 draws beyond the primary, at most 3 when
\* the sprite is no larger than the field (s <= width and s <= height), and
\* makes one or more exactly when the bounding box is not contained in the
\* field (x < 0, y < 0, x + s > width or y + s > height), which includes a box
\* lying wholly outside the field.
C14_ExtraDraws ==
    blit.called =>
        /\ Extras <= 6
        /\ (blit.s <= blit.width /\ blit.s <= blit.height => Extras <= 3)
        /\ (Extras > 0 <=> ~(InsideX /\ InsideY))

\* a sprite larger than the field in both directions, drawn seven times
C14_Witness ==
    /\ blit.called
    /\ blit.width > 0
    /\ blit.s > blit.width
    /\ blit.s > blit.height
    /\ Extras = 6

\* the step of the last renderSprite, and the frame index it computed before
\* the wrap, in thousandths
SpriteStep == sprite.animSpeed * sprite.multiplier
SpriteRaw ==
    IF sprite.forward THEN sprite.before + SpriteStep ELSE sprite.before - SpriteStep

\* C15: a renderSprite call moves animFrame by animSpeed x frameMultipler in
\* the direction of animForward; going forward a result >= animLength becomes
\* 0, going backward a result < 0 becomes animLength - 1, anything else is
\* kept (from animLength - 1 forward, speed 1, multiplier 1: 0, not
\* animLength). For animLength >= 1, animFrame is in [0, animLength) whatever
\* renderSprite calls and direction changes were made.
C15_AnimationStep ==
    /\ (sprite.rendered =>
            sprite.animFrame =
                IF sprite.forward /\ SpriteRaw >= sprite.animLength * 1000 THEN 0
                ELSE IF ~sprite.forward /\ SpriteRaw < 0
                         THEN (sprite.animLength - 1) * 1000
                ELSE SpriteRaw)
    /\ (/\ sprite.rendered
         /\ sprite.forward
         /\ sprite.animSpeed = 1
         /\ sprite.multiplier = 1000
         /\ sprite.before = (sprite.animLength - 1) * 1000 => sprite.animFrame = 0)
    /\ (~sprite.isNull /\ sprite.animLength >= 1 =>
            0 <= sprite.animFrame /\ sprite.animFrame < sprite.animLength * 1000)

\* from the last frame of a strip of two or more, forward at speed 1 and
\* multiplier 1, the animation wrapped to frame 0
C15_Witness ==
    /\ sprite.rendered
    /\ sprite.forward
    /\ sprite.animLength >= 2
    /\ sprite.animSpeed = 1
    /\ sprite.multiplier = 1000
    /\ sprite.before = (sprite.animLength - 1) * 1000
    /\ sprite.animFrame = 0

\* C16 as stated: expired() is true exactly while the clock is more than
\* lifespan past the effect's start, and once it has returned true it is
\* never false again.
C16_Original ==
    ~effect.isNull =>
        /\ (expired(effect) <=> now - effect.effectStart > effect.lifespan)
        /\ (effect.seen => expired(effect))

\* C16 amended: expired() measures from the start of the last frame, not from
\* the clock: it is true exactly when a frame has started more than lifespan
\* after the effect's start. So it is true only when the clock is more than
\* lifespan past the start, it may stay false after the clock has passed that
\* point until the next frame starts (a resume runs one), and once it has
\* returned true it is never false again.
C16_Expiry ==
    ~effect.isNull =>
        /\ (expired(effect) <=>
                Ran /\ last.start - effect.effectStart > effect.lifespan)
        /\ (expired(effect) => now - effect.effectStart > effect.lifespan)
        /\ (effect.seen => expired(effect))

\* the clock passed the lifespan while paused, expired() turned true with the
\* frame of the resume and has returned true
C16_Witness ==
    /\ ~effect.isNull
    /\ effect.seen
    /\ last.via = "resume"
    /\ last.prevScene # NullScene
    /\ pausedFor >= effect.lifespan
    /\ last.start - effect.effectStart = effect.lifespan + 1

C18_KeyDispatch ==
    (keyed.type # "none" /\ keyed.active # NullScene) =>
        /\ keyed.offered = keyed.active
        /\ (keyed.suppressed <=> keyed.handles)

\* C19 as stated: after onLoadCallback(fn), for any set of registered images
\* (the empty one included) and any order of onload events, fn is called at
\* most once, and it has been called exactly when every registered image has
\* loaded.
C19_CallbackOnce ==
    loader.started =>
        /\ loader.calls <= 1
        /\ (loader.calls = 1 <=> loader.loaded = 1..loader.images)

\* C20 as stated: a scene constructed with no interval argument is treated as
\* one without interval: no frame fails on it, its onInitScene resets nothing,
\* the advance rule on it depends on isComplete() alone, and a frame that
\* resolves it renders it by the steady-state path.
C20_OptionalInterval ==
    Ran =>
        /\ ~last.threw
        /\ (interval[last.base].isUndefined => (last.advanced <=> last.c))
        /\ (interval[last.resolved].isUndefined =>
                /\ Count(last.resets, last.resolved) = 0
                /\ last.calls = SteadyCalls)

\* C21 as stated: after GameHandler.init, GameHandler.width is the width of
\* the canvas play field and GameHandler.height its height, on every canvas,
\* so that renderImage wraps the x axis by the field's width and the y axis by
\* its height.
C21_FieldSize ==
    /\ width = canvas.width
    /\ height = canvas.height
    /\ (blit.called => blit.width = canvas.width /\ blit.height = canvas.height)

\* the copy of the sprite shifted by (dx, dy) overlaps the field
Visible(dx, dy) ==
    /\ blit.x + dx < blit.width
    /\ blit.x + dx + blit.s > 0
    /\ blit.y + dy < blit.height
    /\ blit.y + dy + blit.s > 0
Drawn(dx, dy) ==
    \E k \in DOMAIN blit.draws : blit.draws[k] = <<blit.x + dx, blit.y + dy>>

\* C22 as stated: for a sprite no larger than the field, at a position with
\* -s < x < width and -s < y < height, renderImage draws a copy at every
\* offset (dx, dy) of {-width, 0, width} x {-height, 0, height} whose shifted
\* rectangle overlaps the field, the left edge with the bottom edge and the
\* right edge with the top edge included.
C22_WrapCoverage ==
    (/\ blit.called
     /\ blit.s <= blit.width /\ blit.s <= blit.height
     /\ 0 - blit.s < blit.x /\ blit.x < blit.width
     /\ 0 - blit.s < blit.y /\ blit.y < blit.height) =>
        \A dx \in {0 - blit.width, 0, blit.width},
           dy \in {0 - blit.height, 0, blit.height} :
            Visible(dx, dy) => Drawn(dx, dy)

\* C23 as stated: after pause() has set paused, at most one frame runs before
\* the pause() that resumes, whatever the interleaving of pause() calls and
\* callback firings, and that frame requests no further callback.
C23_CooperativePause ==
    Ran =>
        /\ last.pausedFrames <= 1
        /\ (last.paused => last.scheduled = 0)

====
